---- MODULE Spec2Model ----
(***************************************************************************)
(* State-machine model of the socket servers of the repository:            *)
(*   server04.py  selector-based, single-threaded event loop (run_server)  *)
(*   server01.py  blocking accept loop, one client at a time               *)
(*   server02.py  blocking accept loop, one Handler thread per client      *)
(*   server03.py  blocking accept loop, one process per client             *)
(* The variable prog says which of the programs the behaviour runs.  The   *)
(* clients and the network are the environment: they connect, send chunks  *)
(* of bytes, shut down, reset, and an operator may interrupt the process.  *)
(***************************************************************************)
EXTENDS Integers, Sequences, FiniteSets, TLC

\* ------------------------------------------------------------------ bounds
\* Number of client connections the environment opens.
NumClients == 2
\* Number of steps the clients take, all together (a connect, a chunk sent,
\* a shutdown or a reset is one step each).
MaxClientSteps == 4

\* ------------------------------------------------------- program constants
\* sock.recv(1024)
RECV_SIZE == 1024
\* serv_sock.listen(1)
BACKLOG == 1

Clients == 1..NumClients
Programs == {"server01", "server02", "server03", "server04"}

\* selectors.EVENT_READ, as an interest mask (a set of flags)
EVENT_READ == {"READABLE"}

\* b"close"
CLOSE == <<99, 108, 111, 115, 101>>
\* Chunks a client may send: b"Hi", b"close"
Chunks == {<<72, 105>>, CLOSE}

\* ------------------------------------------------------------ pure helpers
\* bytes.upper() on one byte: ASCII a..z map to A..Z, everything else is kept
UpperByte(b) == IF b >= 97 /\ b <= 122 THEN b - 32 ELSE b

\* data.upper()
Upper(data) == [i \in 1..Len(data) |-> UpperByte(data[i])]

Min(a, b) == IF a <= b THEN a ELSE b

VARIABLES
    prog,       \* which program runs
    loop,       \* "INIT", "LISTENING" (the listening socket is set up, the loop
                \* not entered yet), "RUNNING", "STOPPED"
    stopCause,  \* why the loop stopped ("none" while it has not)
    exitKind,   \* "none", "return" (normal return), "uncaught" (exception leaves the program)
    serv_sock,  \* listening socket: [state, fd, closeCalls, releases]
    sel,        \* selector: file descriptor -> SelectorKey [fileobj, fd, events, data]
    events,     \* keys returned by sel.select() not yet dispatched in this iteration
    backlog,    \* accept queue of the listening socket
    conn,       \* per client connection: server-side socket and network state
                \* (out: bytes a sendall under way has still to get through)
    hist,       \* per client connection: what the server did for it (history)
    cur,        \* server01: the client being served (0 while accepting)
    threads     \* server02, server03: per client, its Handler thread or its
                \* process ("none", "running", "done")

vars == <<prog, loop, stopCause, exitKind, serv_sock, sel, events, backlog, conn, hist,
          cur, threads>>

\* The variables only run_server of server04 uses, and those only server01/02 use
vars04 == <<sel, events>>
vars0102 == <<cur, threads>>

LISTENER == 0

NewConn == [state |-> "idle", fd |-> -1, nonblocking |-> FALSE, peer |-> "open",
            sent |-> <<>>, nsent |-> 0, rpos |-> 0, written |-> <<>>, out |-> <<>>]

NewHist == [connects |-> 0, reads |-> 0, sends |-> 0, disconnects |-> 0,
            closes |-> 0, closedBy |-> "none", eof |-> FALSE, late |-> FALSE,
            failed |-> FALSE, sendErr |-> "none", regAtDisc |-> FALSE,
            steps |-> <<>>, lastSend |-> <<>>]

NewSock == [state |-> "none", fd |-> -1, closeCalls |-> 0, releases |-> 0]

\* ------------------------------------------------------- sockets, selector
\* File descriptors in use by the process.
UsedFds(ss, cn) ==
    (IF ss.state \in {"open", "listening"} THEN {ss.fd} ELSE {})
        \cup {cn[c].fd : c \in {d \in Clients : cn[d].state = "accepted"}}

\* The kernel hands out the lowest free descriptor number.
LowestFreeFd(used) ==
    CHOOSE n \in 0..(NumClients + 1) : n \notin used /\ \A m \in 0..(n - 1) : m \in used

\* socket.close(): releases the descriptor the first time, a no-op afterwards
SockClose(ss) ==
    [ss EXCEPT !.closeCalls = @ + 1,
               !.releases = IF ss.state = "closed" THEN @ ELSE @ + 1,
               !.state = "closed"]

\* sel.register(fileobj, events, data): KeyError when the descriptor is registered
SelRegister(table, fileobj, fd, mask, data) ==
    IF fd \in DOMAIN table
    THEN [ok |-> FALSE, table |-> table]
    ELSE [ok |-> TRUE,
          table |-> [f \in DOMAIN table \cup {fd} |->
                        IF f = fd
                        THEN [fileobj |-> fileobj, fd |-> fd, events |-> mask, data |-> data]
                        ELSE table[f]]]

\* unregister that returns without removing the entry
SelUnregister_Keep(table, fd) == [ok |-> TRUE, table |-> table]

\* sel.unregister(fileobj): KeyError when the descriptor is not registered
SelUnregister(table, fd) ==
    IF fd \notin DOMAIN table
    THEN [ok |-> FALSE, table |-> table]
    ELSE [ok |-> TRUE, table |-> [f \in DOMAIN table \ {fd} |-> table[f]]]

\* Bytes of the connection that have arrived and were not yet received
Unread(cn) == SubSeq(cn.sent, cn.rpos + 1, Len(cn.sent))

\* Whether the selector reports the file object readable
Readable(fileobj) ==
    IF fileobj = LISTENER
    THEN backlog # <<>>
    ELSE Unread(conn[fileobj]) # <<>> \/ conn[fileobj].peer # "open"

\* sel.select(): the keys of the registered descriptors that are ready
ReadyKeys == {sel[fd] : fd \in {f \in DOMAIN sel : Readable(sel[f].fileobj)}}

\* Chunks sent so far by the clients 1..n
RECURSIVE SumSent(_, _)
SumSent(cn, n) == IF n = 0 THEN 0 ELSE cn[n].nsent + SumSent(cn, n - 1)

\* Connections whose client has shut down or reset
HungUp(cn) == {c \in Clients : cn[c].peer # "open"}

\* The peer has reset the connection, at once ("rst") or after it had shut
\* down its sending side ("finrst")
Reset(cn) == cn.peer \in {"rst", "finrst"}

\* The state of the peer after it has reset the connection
AfterReset(peer) == IF peer = "fin" THEN "finrst" ELSE "rst"

\* Steps the clients have taken so far
ClientSteps(cn) ==
    Cardinality({c \in Clients : cn[c].state # "idle"}) + SumSent(cn, NumClients)
        + Cardinality(HungUp(cn)) + Cardinality({c \in Clients : cn[c].peer = "finrst"})

\* ---------------------------------------------------------------- handle
\* What the network does while the read handler runs, as the handler sees it:
\*   peername: result of sock.getpeername() ("OSError" only after a peer reset)
\*   send:     result of sock.send() ("ok", "short" = fewer bytes than given,
\*             "ConnectionError" = the peer has reset, or resets before the send,
\*             "BlockingIOError" = the send buffer is full)
\*   room:     bytes the send buffer has room for when the send is short
\*             (0 with every other result)
IoOutcomes == [peername : {"ok", "OSError"},
               send : {"ok", "short", "ConnectionError", "BlockingIOError"},
               room : 0..(RECV_SIZE - 1)]

IoQuiet == [peername |-> "ok", send |-> "ok", room |-> 0]

\* sock.recv(1024): bytes that have arrived are handed out first, also after
\* the peer has reset the connection; with nothing left to read a reset
\* connection raises ConnectionResetError, an open one (non-blocking socket)
\* BlockingIOError, and one the peer has shut down returns b"", also when
\* the peer has reset it after the shutdown
Recv(cn) ==
    LET avail == Unread(cn) IN
    IF avail # <<>>
    THEN [exc |-> "none", data |-> SubSeq(avail, 1, Min(Len(avail), RECV_SIZE))]
    ELSE IF cn.peer = "rst" THEN [exc |-> "ConnectionError", data |-> <<>>]
    ELSE IF cn.peer = "open" THEN [exc |-> "BlockingIOError", data |-> <<>>]
    ELSE [exc |-> "none", data |-> <<>>]

\* The outcomes among ios that the connection can meet in one call of
\* on_read_ready: getpeername fails only after a reset; send fails with
\* ConnectionError once the peer has reset; a short send takes at least one
\* byte and fewer than it is given; the outcome of a call that is not made
\* is left at "ok"
IoFor(cn, ios) ==
    LET r == Recv(cn)
        sends == cn.state = "accepted" /\ r.exc = "none" /\ r.data \notin {<<>>, CLOSE}
        most == IF sends THEN Len(r.data) - 1 ELSE 0
    IN {io \in [peername : {"ok", "OSError"},
                send : {"ok", "short", "ConnectionError", "BlockingIOError"},
                room : 0..most] :
           /\ io \in ios
           /\ (io.send = "short") = (io.room > 0)
           /\ io.peername = "OSError" => (Reset(cn) /\ io.send = "ok")
           /\ (io.peername = "ok" /\ ~sends) => io.send = "ok"
           /\ (io.peername = "ok" /\ sends /\ Reset(cn)) => io.send = "ConnectionError"}

\* sock.send(data): the bytes that reach the socket, or the exception; a
\* short send takes the bytes the send buffer has room for
Send(data, outcome, room) ==
    CASE outcome = "ok" -> [exc |-> "none", wrote |-> data]
      [] outcome = "short" -> [exc |-> "none", wrote |-> SubSeq(data, 1, Min(room, Len(data)))]
      [] OTHER -> [exc |-> outcome, wrote |-> <<>>]

HandleResult == [ret |-> FALSE, exc |-> "none", nread |-> 0, arg |-> <<>>,
                 wrote |-> <<>>, sends |-> 0, failed |-> FALSE, sendErr |-> "none"]

\* handle with the b"close" test left out: the sentinel is echoed like any chunk
handle_NoSentinel(cn, io) ==
    LET r == Recv(cn) IN
    IF r.exc = "ConnectionError"
    THEN [HandleResult EXCEPT !.failed = TRUE]
    ELSE IF r.exc # "none"
    THEN [HandleResult EXCEPT !.exc = r.exc, !.failed = TRUE]
    ELSE IF r.data = <<>>
    THEN HandleResult
    ELSE LET s == Send(Upper(r.data), io.send, io.room) IN
         IF s.exc = "ConnectionError"
         THEN [HandleResult EXCEPT !.nread = Len(r.data), !.sends = 1, !.arg = Upper(r.data),
                                   !.failed = TRUE, !.sendErr = s.exc]
         ELSE IF s.exc # "none"
         THEN [HandleResult EXCEPT !.nread = Len(r.data), !.sends = 1, !.arg = Upper(r.data),
                                   !.exc = s.exc,
                                   !.failed = TRUE, !.sendErr = s.exc]
         ELSE [HandleResult EXCEPT !.ret = TRUE, !.nread = Len(r.data), !.sends = 1,
                                   !.arg = Upper(r.data),
                                   !.wrote = s.wrote]

\* handle echoing the chunk as received, without upper-casing it
handle_NoUpper(cn, io) ==
    LET r == Recv(cn) IN
    IF r.exc = "ConnectionError"
    THEN [HandleResult EXCEPT !.failed = TRUE]
    ELSE IF r.exc # "none"
    THEN [HandleResult EXCEPT !.exc = r.exc, !.failed = TRUE]
    ELSE IF r.data = <<>>
    THEN HandleResult
    ELSE IF r.data = CLOSE
    THEN [HandleResult EXCEPT !.nread = Len(r.data)]
    ELSE LET s == Send(r.data, io.send, io.room) IN
         IF s.exc = "ConnectionError"
         THEN [HandleResult EXCEPT !.nread = Len(r.data), !.sends = 1, !.arg = r.data,
                                   !.failed = TRUE, !.sendErr = s.exc]
         ELSE IF s.exc # "none"
         THEN [HandleResult EXCEPT !.nread = Len(r.data), !.sends = 1, !.arg = r.data,
                                   !.exc = s.exc, !.failed = TRUE, !.sendErr = s.exc]
         ELSE [HandleResult EXCEPT !.ret = TRUE, !.nread = Len(r.data), !.sends = 1,
                                   !.arg = r.data, !.wrote = s.wrote]

\* handle(sock, addr): ret is the return value (True keeps the connection),
\* exc the exception that leaves the function ("none" when it returns).
handle(cn, io) ==
    LET r == Recv(cn) IN
    IF r.exc = "ConnectionError"
    THEN [HandleResult EXCEPT !.failed = TRUE]
    ELSE IF r.exc # "none"
    THEN [HandleResult EXCEPT !.exc = r.exc, !.failed = TRUE]
    ELSE IF r.data = <<>>
    THEN HandleResult
    ELSE IF r.data = CLOSE
    THEN [HandleResult EXCEPT !.nread = Len(r.data)]
    ELSE LET s == Send(Upper(r.data), io.send, io.room) IN
         IF s.exc = "ConnectionError"
         THEN [HandleResult EXCEPT !.nread = Len(r.data), !.sends = 1, !.arg = Upper(r.data),
                                   !.failed = TRUE, !.sendErr = s.exc]
         ELSE IF s.exc # "none"
         THEN [HandleResult EXCEPT !.nread = Len(r.data), !.sends = 1, !.arg = Upper(r.data),
                                   !.exc = s.exc,
                                   !.failed = TRUE, !.sendErr = s.exc]
         ELSE [HandleResult EXCEPT !.ret = TRUE, !.nread = Len(r.data), !.sends = 1,
                                   !.arg = Upper(r.data),
                                   !.wrote = s.wrote]

\* ------------------------------------------------------------- run_server
\* Leaving run_server: the with block closes serv_sock on every way out; an
\* Exception is caught and printed (normal return), a KeyboardInterrupt is not.
RunServerExit(cause, kind) ==
    /\ loop' = "STOPPED"
    /\ stopCause' = cause
    /\ exitKind' = kind
    /\ serv_sock' = SockClose(serv_sock)
    /\ events' = {}

\* with socket.socket(...) as serv_sock: bind, listen; an error leaves the with
\* block, which closes the socket, and is caught and printed
Setup04 ==
    /\ prog = "server04"
    /\ loop = "INIT"
    /\ \E bindOk \in BOOLEAN :
          LET fd == LowestFreeFd(UsedFds(serv_sock, conn))
              ss == [serv_sock EXCEPT !.state = "open", !.fd = fd]
          IN IF bindOk
             THEN /\ serv_sock' = [ss EXCEPT !.state = "listening"]
                  /\ loop' = "LISTENING"
                  /\ UNCHANGED <<stopCause, exitKind>>
             ELSE /\ loop' = "STOPPED"
                  /\ stopCause' = "setup_error"
                  /\ exitKind' = "return"
                  /\ serv_sock' = SockClose(ss)
    /\ UNCHANGED <<prog, sel, events, backlog, conn, hist, vars0102>>

\* The rest of the setup of run_server, with the socket listening (clients
\* can connect already): setblocking(False), the selector is made and the
\* listening socket registered with on_accept_ready; then the loop is entered
Register04 ==
    /\ prog = "server04"
    /\ loop = "LISTENING"
    /\ LET reg == SelRegister(sel, LISTENER, serv_sock.fd, EVENT_READ, "on_accept_ready")
       IN IF reg.ok
          THEN /\ sel' = reg.table
               /\ loop' = "RUNNING"
               /\ UNCHANGED <<stopCause, exitKind, serv_sock, events>>
          ELSE /\ RunServerExit("register_error", "return")
               /\ sel' = sel
    /\ UNCHANGED <<prog, backlog, conn, hist, vars0102>>

\* select returning one ready key only, that of the lowest descriptor
Select_OneKey ==
    /\ prog = "server04"
    /\ loop = "RUNNING"
    /\ events = {}
    /\ ReadyKeys # {}
    /\ events' = {CHOOSE k \in ReadyKeys : \A k2 \in ReadyKeys : k.fd <= k2.fd}
    /\ UNCHANGED <<prog, loop, stopCause, exitKind, serv_sock, sel, backlog, conn, hist,
                   vars0102>>

\* events = sel.select(): blocks until a registered descriptor is ready
Select ==
    /\ prog = "server04"
    /\ loop = "RUNNING"
    /\ events = {}
    /\ ReadyKeys # {}
    /\ events' = ReadyKeys
    /\ UNCHANGED <<prog, loop, stopCause, exitKind, serv_sock, sel, backlog, conn, hist,
                   vars0102>>

\* sel.select() fails: the exception reaches the except clause of run_server
SelectError ==
    /\ prog = "server04"
    /\ loop = "RUNNING"
    /\ events = {}
    /\ RunServerExit("select_error", "return")
    /\ UNCHANGED <<prog, sel, backlog, conn, hist, vars0102>>

\* A stop path that also disconnects the clients: on_disconnect, unregister
\* and close for every client socket that is open
Interrupt04_CloseClients ==
    /\ prog = "server04"
    /\ loop = "RUNNING"
    /\ RunServerExit("interrupt", "uncaught")
    /\ sel' = [f \in {g \in DOMAIN sel : sel[g].fileobj = LISTENER} |-> sel[f]]
    /\ conn' = [c \in Clients |->
                   IF conn[c].state = "accepted"
                   THEN [conn[c] EXCEPT !.state = "closed"] ELSE conn[c]]
    /\ hist' = [c \in Clients |->
                   IF conn[c].state = "accepted"
                   THEN [hist[c] EXCEPT !.disconnects = @ + 1, !.regAtDisc = TRUE,
                                        !.closes = @ + 1, !.closedBy = "run_server",
                                        !.steps = @ \o <<"on_disconnect", "unregister",
                                                         "close">>]
                   ELSE hist[c]]
    /\ UNCHANGED <<prog, backlog, vars0102>>

\* Whether the read of this dispatch yields zero bytes or exactly b"close"
ReadEnds(cn) == Recv(cn).exc = "none" /\ Recv(cn).data \in {<<>>, CLOSE}

\* The statements of on_accept_ready after accept, and those of the
\* disconnect path of on_read_ready, in their order
AcceptSteps == <<"setblocking", "register", "on_connect">>
DisconnectSteps04 == <<"on_disconnect", "unregister", "close">>

\* KeyboardInterrupt raised inside on_accept_ready when n of the statements
\* after accept have run (n = 0: accept has returned, nothing else)
AcceptCut(n) ==
    /\ backlog # <<>>
    /\ LET c == Head(backlog)
           fd == LowestFreeFd(UsedFds(serv_sock, conn))
           reg == SelRegister(sel, c, fd, EVENT_READ, "on_read_ready")
       IN /\ backlog' = Tail(backlog)
          /\ conn' = [conn EXCEPT ![c].state = "accepted", ![c].fd = fd,
                                  ![c].nonblocking = (n >= 1)]
          /\ n >= 2 => reg.ok
          /\ sel' = IF n >= 2 THEN reg.table ELSE sel
          /\ hist' = [hist EXCEPT ![c].steps = @ \o SubSeq(AcceptSteps, 1, n)]

\* KeyboardInterrupt raised inside on_read_ready for client c: after recv has
\* returned bytes inside handle (n = -1), or when handle has returned False
\* and n statements of the disconnect path have run (n = 0, 1, 2)
ReadCut(c, io, n) ==
    LET cn == conn[c]
        h0 == [hist[c] EXCEPT !.late = @ \/ hist[c].eof \/ hist[c].disconnects > 0]
        rv == Recv(cn)
        r == handle(cn, io)
        hr == [h0 EXCEPT !.reads = @ + 1, !.eof = @ \/ ReadEnds(cn),
                         !.steps = @ \o <<"on_read">>]
        h1 == [hr EXCEPT !.sends = @ + r.sends, !.failed = @ \/ r.failed,
                         !.sendErr = IF r.sendErr # "none" THEN r.sendErr ELSE @,
                         !.lastSend = IF r.sends > 0 THEN r.arg ELSE @]
        un == SelUnregister(sel, cn.fd)
    IN /\ cn.state = "accepted"
       /\ io.peername = "ok"
       /\ backlog' = backlog
       /\ IF n = -1
          THEN /\ rv.exc = "none"
               /\ rv.data # <<>>
               /\ conn' = [conn EXCEPT ![c].rpos = @ + Len(rv.data)]
               /\ hist' = [hist EXCEPT ![c] = hr]
               /\ sel' = sel
          ELSE /\ r.exc = "none"
               /\ ~r.ret
               /\ conn' = [conn EXCEPT ![c].rpos = @ + r.nread, ![c].written = @ \o r.wrote]
               /\ n >= 2 => un.ok
               /\ sel' = IF n >= 2 THEN un.table ELSE sel
               /\ hist' = [hist EXCEPT ![c] =
                              [h1 EXCEPT !.disconnects = IF n >= 1 THEN @ + 1 ELSE @,
                                         !.regAtDisc = IF n >= 1 THEN cn.fd \in DOMAIN sel ELSE @,
                                         !.steps = @ \o SubSeq(DisconnectSteps04, 1, n)]]

\* KeyboardInterrupt in run_server.  The signal lands wherever the main
\* thread is: in the setup (the socket is not made yet, or it is and the
\* listener is registered or not yet), in sel.select() or between two
\* callbacks (nothing else changes),
\* or inside the callback of a key of the ready list, which is then left
\* where it was; the exception is not caught, the with block closes serv_sock.
Interrupt04 ==
    /\ prog = "server04"
    /\ IF loop = "INIT"
       THEN \* before the socket is made (nothing to close), or inside the
            \* with block, which closes the socket it has made
            /\ loop' = "STOPPED"
            /\ stopCause' = "interrupt"
            /\ exitKind' = "uncaught"
            /\ events' = {}
            /\ LET fd == LowestFreeFd(UsedFds(serv_sock, conn))
                   reg == SelRegister(sel, LISTENER, fd, EVENT_READ, "on_accept_ready")
               IN \/ /\ serv_sock' = serv_sock
                     /\ sel' = sel
                  \/ /\ serv_sock' = SockClose([serv_sock EXCEPT !.state = "open",
                                                                 !.fd = fd])
                     /\ \E registered \in BOOLEAN :
                           /\ registered => reg.ok
                           /\ sel' = IF registered THEN reg.table ELSE sel
            /\ UNCHANGED <<backlog, conn, hist>>
       ELSE IF loop = "LISTENING"
       THEN \* the socket listens: the listener is registered or not yet
            /\ RunServerExit("interrupt", "uncaught")
            /\ LET reg == SelRegister(sel, LISTENER, serv_sock.fd, EVENT_READ,
                                      "on_accept_ready")
               IN \E registered \in BOOLEAN :
                     /\ registered => reg.ok
                     /\ sel' = IF registered THEN reg.table ELSE sel
            /\ UNCHANGED <<backlog, conn, hist>>
       ELSE /\ loop = "RUNNING"
            /\ RunServerExit("interrupt", "uncaught")
            /\ \/ UNCHANGED <<sel, backlog, conn, hist>>
               \/ \E key \in events :
                     IF key.data = "on_accept_ready"
                     THEN \E n \in 0..2 : AcceptCut(n)
                     ELSE \/ ReadCut(key.fileobj, IoQuiet, -1)
                          \/ \E io \in IoFor(conn[key.fileobj], IoOutcomes),
                                n \in 0..2 :
                                ReadCut(key.fileobj, io, n)
    /\ UNCHANGED <<prog, vars0102>>

\* on_accept_ready calling on_connect before the socket is set up and registered
AcceptHist_ConnectFirst(h) ==
    [h EXCEPT !.connects = @ + 1,
              !.steps = @ \o <<"on_connect", "setblocking", "register">>]

\* What on_accept_ready does with the new socket after accept, in its order:
\* sock.setblocking(False), sel.register(...), on_connect(sock, addr)
AcceptHist(h) ==
    [h EXCEPT !.connects = @ + 1, !.steps = @ \o AcceptSteps]

\* on_accept_ready registering the new socket for reading and writing
OnAcceptReady_ReadWrite(key) ==
    IF backlog = <<>>
    THEN /\ RunServerExit("accept_error", "return")
         /\ UNCHANGED <<sel, backlog, conn, hist>>
    ELSE LET c == Head(backlog)
             fd == LowestFreeFd(UsedFds(serv_sock, conn))
             reg == SelRegister(sel, c, fd, {"READABLE", "WRITABLE"}, "on_read_ready")
         IN /\ backlog' = Tail(backlog)
            /\ conn' = [conn EXCEPT ![c].state = "accepted", ![c].fd = fd,
                                    ![c].nonblocking = TRUE]
            /\ IF reg.ok
               THEN /\ sel' = reg.table
                    /\ hist' = [hist EXCEPT ![c] = AcceptHist(hist[c])]
                    /\ events' = events \ {key}
                    /\ UNCHANGED <<loop, stopCause, exitKind, serv_sock>>
               ELSE /\ RunServerExit("register_error", "return")
                    /\ UNCHANGED <<sel, hist>>

\* on_accept_ready without the sel.register call
OnAcceptReady_NoRegister(key) ==
    IF backlog = <<>>
    THEN /\ RunServerExit("accept_error", "return")
         /\ UNCHANGED <<sel, backlog, conn, hist>>
    ELSE LET c == Head(backlog)
             fd == LowestFreeFd(UsedFds(serv_sock, conn))
         IN /\ backlog' = Tail(backlog)
            /\ conn' = [conn EXCEPT ![c].state = "accepted", ![c].fd = fd,
                                    ![c].nonblocking = TRUE]
            /\ sel' = sel
            /\ hist' = [hist EXCEPT ![c] = AcceptHist(hist[c])]
            /\ events' = events \ {key}
            /\ UNCHANGED <<loop, stopCause, exitKind, serv_sock>>

\* on_accept_ready(sel, serv_sock, mask)
OnAcceptReady(key) ==
    IF backlog = <<>>
    THEN \* serv_sock.accept() raises BlockingIOError: nothing is pending
         /\ RunServerExit("accept_error", "return")
         /\ UNCHANGED <<sel, backlog, conn, hist>>
    ELSE LET c == Head(backlog)
             fd == LowestFreeFd(UsedFds(serv_sock, conn))
             reg == SelRegister(sel, c, fd, EVENT_READ, "on_read_ready")
         IN /\ backlog' = Tail(backlog)
            /\ conn' = [conn EXCEPT ![c].state = "accepted", ![c].fd = fd,
                                    ![c].nonblocking = TRUE]
            /\ IF reg.ok
               THEN /\ sel' = reg.table
                    /\ hist' = [hist EXCEPT ![c] = AcceptHist(hist[c])]
                    /\ events' = events \ {key}
                    /\ UNCHANGED <<loop, stopCause, exitKind, serv_sock>>
               ELSE /\ RunServerExit("register_error", "return")
                    /\ UNCHANGED <<sel, hist>>

\* The disconnect path with the socket closed a second time
DisconnectHist_CloseTwice(h, registered) ==
    [h EXCEPT !.disconnects = @ + 1, !.regAtDisc = registered,
              !.closes = @ + 2, !.closedBy = "on_read_ready",
              !.steps = @ \o <<"on_disconnect", "unregister", "close", "close">>]

\* The disconnect path closing the socket first and calling on_disconnect last
DisconnectHist_CloseFirst(h, registered) ==
    [h EXCEPT !.disconnects = @ + 1, !.regAtDisc = FALSE,
              !.closes = @ + 1, !.closedBy = "on_read_ready",
              !.steps = @ \o <<"close", "unregister", "on_disconnect">>]

\* The disconnect path of on_read_ready: on_disconnect, sel.unregister, sock.close
DisconnectHist(h, registered) ==
    [h EXCEPT !.disconnects = @ + 1, !.regAtDisc = registered,
              !.closes = @ + 1, !.closedBy = "on_read_ready",
              !.steps = @ \o DisconnectSteps04]

\* on_read_ready with a disconnect path that leaves the socket in the table
OnReadReady_NoUnregister(key, io) ==
    LET c == key.fileobj
        cn == conn[c]
        h0 == [hist[c] EXCEPT !.late = @ \/ hist[c].eof \/ hist[c].disconnects > 0]
    IN
    IF cn.state # "accepted" \/ io.peername = "OSError"
    THEN \* sock.getpeername() raises OSError
         /\ hist' = [hist EXCEPT ![c] = [h0 EXCEPT !.failed = TRUE]]
         /\ RunServerExit("read_error", "return")
         /\ UNCHANGED <<sel, backlog, conn>>
    ELSE LET r == handle(cn, io)
             h1 == [h0 EXCEPT !.reads = @ + 1, !.sends = @ + r.sends,
                              !.eof = @ \/ ReadEnds(cn), !.failed = @ \/ r.failed,
                              !.sendErr = IF r.sendErr # "none" THEN r.sendErr ELSE @,
                              !.steps = @ \o <<"on_read">>,
                              !.lastSend = IF r.sends > 0 THEN r.arg ELSE @]
             cn1 == [cn EXCEPT !.rpos = @ + r.nread, !.written = @ \o r.wrote]
         IN
         IF r.exc # "none"
         THEN \* the exception leaves handle and on_read_ready
              /\ hist' = [hist EXCEPT ![c] = h1]
              /\ conn' = [conn EXCEPT ![c] = cn1]
              /\ RunServerExit("read_error", "return")
              /\ UNCHANGED <<sel, backlog>>
         ELSE IF r.ret
         THEN /\ hist' = [hist EXCEPT ![c] = h1]
              /\ conn' = [conn EXCEPT ![c] = cn1]
              /\ events' = events \ {key}
              /\ UNCHANGED <<loop, stopCause, exitKind, serv_sock, sel, backlog>>
         ELSE LET un == [ok |-> TRUE, table |-> sel] IN
              /\ backlog' = backlog
              /\ IF un.ok
                 THEN /\ sel' = un.table
                      /\ hist' = [hist EXCEPT ![c] = DisconnectHist(h1, cn.fd \in DOMAIN sel)]
                      /\ conn' = [conn EXCEPT ![c] = [cn1 EXCEPT !.state = "closed"]]
                      /\ events' = events \ {key}
                      /\ UNCHANGED <<loop, stopCause, exitKind, serv_sock>>
                 ELSE \* sel.unregister raises KeyError after on_disconnect ran
                      /\ sel' = sel
                      /\ hist' = [hist EXCEPT ![c] = [h1 EXCEPT !.disconnects = @ + 1,
                                                             !.steps = @ \o <<"on_disconnect">>]]
                      /\ conn' = [conn EXCEPT ![c] = cn1]
                      /\ RunServerExit("unregister_error", "return")

\* on_read_ready(sel, sock, mask)
OnReadReady(key, io) ==
    LET c == key.fileobj
        cn == conn[c]
        h0 == [hist[c] EXCEPT !.late = @ \/ hist[c].eof \/ hist[c].disconnects > 0]
    IN
    IF cn.state # "accepted" \/ io.peername = "OSError"
    THEN \* sock.getpeername() raises OSError
         /\ hist' = [hist EXCEPT ![c] = [h0 EXCEPT !.failed = TRUE]]
         /\ RunServerExit("read_error", "return")
         /\ UNCHANGED <<sel, backlog, conn>>
    ELSE LET r == handle(cn, io)
             h1 == [h0 EXCEPT !.reads = @ + 1, !.sends = @ + r.sends,
                              !.eof = @ \/ ReadEnds(cn), !.failed = @ \/ r.failed,
                              !.sendErr = IF r.sendErr # "none" THEN r.sendErr ELSE @,
                              !.steps = @ \o <<"on_read">>,
                              !.lastSend = IF r.sends > 0 THEN r.arg ELSE @]
             cn1 == [cn EXCEPT !.rpos = @ + r.nread, !.written = @ \o r.wrote]
         IN
         IF r.exc # "none"
         THEN \* the exception leaves handle and on_read_ready
              /\ hist' = [hist EXCEPT ![c] = h1]
              /\ conn' = [conn EXCEPT ![c] = cn1]
              /\ RunServerExit("read_error", "return")
              /\ UNCHANGED <<sel, backlog>>
         ELSE IF r.ret
         THEN /\ hist' = [hist EXCEPT ![c] = h1]
              /\ conn' = [conn EXCEPT ![c] = cn1]
              /\ events' = events \ {key}
              /\ UNCHANGED <<loop, stopCause, exitKind, serv_sock, sel, backlog>>
         ELSE LET un == SelUnregister(sel, cn.fd) IN
              /\ backlog' = backlog
              /\ IF un.ok
                 THEN /\ sel' = un.table
                      /\ hist' = [hist EXCEPT ![c] = DisconnectHist(h1, cn.fd \in DOMAIN sel)]
                      /\ conn' = [conn EXCEPT ![c] = [cn1 EXCEPT !.state = "closed"]]
                      /\ events' = events \ {key}
                      /\ UNCHANGED <<loop, stopCause, exitKind, serv_sock>>
                 ELSE \* sel.unregister raises KeyError after on_disconnect ran
                      /\ sel' = sel
                      /\ hist' = [hist EXCEPT ![c] = [h1 EXCEPT !.disconnects = @ + 1,
                                                             !.steps = @ \o <<"on_disconnect">>]]
                      /\ conn' = [conn EXCEPT ![c] = cn1]
                      /\ RunServerExit("unregister_error", "return")

\* for key, mask in events: callback = key.data; callback(sel, key.fileobj, mask)
Dispatch(inputs) ==
    /\ prog = "server04"
    /\ loop = "RUNNING"
    /\ \E key \in events :
          IF key.data = "on_accept_ready"
          THEN OnAcceptReady(key)
          ELSE \E io \in IoFor(conn[key.fileobj], inputs) : OnReadReady(key, io)
    /\ UNCHANGED <<prog, vars0102>>

DispatchAny == Dispatch(IoOutcomes)

\* ------------------------------------------------ server01 and server02
\* message.encode(): b"OK"
OK_REPLY == <<79, 75>>

\* Server.__init__ (server01 and server02): socket, bind, listen; on OSError the
\* constructor prints, closes the socket and returns, and start() runs all the same
ServerInit ==
    /\ prog \in {"server01", "server02"}
    /\ loop = "INIT"
    /\ \E bindOk \in BOOLEAN :
          LET fd == LowestFreeFd(UsedFds(serv_sock, conn))
              ss == [serv_sock EXCEPT !.state = "open", !.fd = fd]
          IN serv_sock' = IF bindOk THEN [ss EXCEPT !.state = "listening"] ELSE SockClose(ss)
    /\ loop' = "LISTENING"
    /\ UNCHANGED <<prog, stopCause, exitKind, backlog, conn, hist, vars04, vars0102>>

\* server.start() is called and enters its try block, the constructor having
\* returned (clients can connect meanwhile when the socket listens)
ServerStart ==
    /\ prog \in {"server01", "server02"}
    /\ loop = "LISTENING"
    /\ loop' = "RUNNING"
    /\ UNCHANGED <<prog, stopCause, exitKind, serv_sock, backlog, conn, hist, vars04,
                   vars0102>>

\* Leaving Server.start: the finally clause closes the listening socket;
\* KeyboardInterrupt is caught (normal return), every other exception goes on
StartExit(cause) ==
    /\ loop' = "STOPPED"
    /\ stopCause' = cause
    /\ exitKind' = IF cause = "interrupt" THEN "return" ELSE "uncaught"
    /\ serv_sock' = SockClose(serv_sock)

\* KeyboardInterrupt while Server.__init__ runs, or when it has returned and
\* start() is not in its try block yet: nothing catches it and nothing closes
\* the socket.  The constructor has not made the socket yet, or has made it
\* (bound and listening, or not yet), or has closed it after a failed bind;
\* when the constructor has returned the socket is left as it is.
InitCut ==
    /\ loop' = "STOPPED"
    /\ stopCause' = "interrupt"
    /\ exitKind' = "uncaught"
    /\ LET ss == [serv_sock EXCEPT !.state = "open",
                                    !.fd = LowestFreeFd(UsedFds(serv_sock, conn))]
       IN IF loop = "INIT"
          THEN serv_sock' \in {serv_sock, ss, [ss EXCEPT !.state = "listening"],
                               SockClose(ss)}
          ELSE serv_sock' = serv_sock

\* client_socket.close() at the end of serve / Handler.run
ClientClose(h, by) == [h EXCEPT !.closes = @ + 1, !.closedBy = by]

ServeResult == [done |-> FALSE, nread |-> 0, wrote |-> <<>>, sends |-> 0, failed |-> FALSE]

\* sendall(data): taken is the number of bytes the connection has taken when
\* the call ends; it returns when all of them are taken, and raises a socket
\* error when the connection breaks before that
Sendall(data, taken) ==
    [ok |-> taken >= Len(data), wrote |-> SubSeq(data, 1, Min(taken, Len(data)))]

\* One turn of the while loop of Server.serve (server01): recv, then sendall(b"OK");
\* done when the loop is left (zero bytes, or a socket error) and the socket closed
serve(cn, taken) ==
    LET r == Recv(cn)
        s == Sendall(OK_REPLY, taken)
    IN
    IF r.exc # "none" THEN [ServeResult EXCEPT !.done = TRUE, !.failed = TRUE]
    ELSE IF r.data = <<>> THEN [ServeResult EXCEPT !.done = TRUE]
    ELSE IF s.ok
    THEN [ServeResult EXCEPT !.nread = Len(r.data), !.wrote = s.wrote, !.sends = 1]
    ELSE [ServeResult EXCEPT !.done = TRUE, !.nread = Len(r.data), !.wrote = s.wrote,
                             !.sends = 1, !.failed = TRUE]

\* One turn of the while loop of Handler.run (server02)
HandlerRun(cn, taken) ==
    LET r == Recv(cn)
        s == Sendall(OK_REPLY, taken)
    IN
    IF r.exc # "none" THEN [ServeResult EXCEPT !.done = TRUE, !.failed = TRUE]
    ELSE IF r.data = <<>> THEN [ServeResult EXCEPT !.done = TRUE]
    ELSE IF s.ok
    THEN [ServeResult EXCEPT !.nread = Len(r.data), !.wrote = s.wrote, !.sends = 1]
    ELSE [ServeResult EXCEPT !.done = TRUE, !.nread = Len(r.data), !.wrote = s.wrote,
                             !.sends = 1, !.failed = TRUE]

\* The blocking recv returns: data, end of stream or an error is there
RecvReturns(c) == Unread(conn[c]) # <<>> \/ conn[c].peer # "open"

\* The peer of the connection may reset it now (the clients take a bounded
\* number of steps)
MayReset(cn) == ~Reset(cn) /\ ClientSteps(conn) < MaxClientSteps

\* What the code serving a client (Server.serve, Handler.run,
\* handle_connection) has made of its connection and of its history, as a
\* record [cn, h, done]: done when it has left its loop, which ends in the
\* close of the socket.
\* recv has returned n bytes
Received(cn, h, n) ==
    [cn |-> [cn EXCEPT !.rpos = @ + n], h |-> [h EXCEPT !.reads = @ + 1], done |-> FALSE]

\* sendall(reply) is called
Called(cn, h, reply) ==
    [cn |-> [cn EXCEPT !.out = reply],
     h |-> [h EXCEPT !.sends = @ + 1,
                     !.lastSend = IF prog = "server03" THEN reply ELSE @],
     done |-> FALSE]

\* the connection takes k more bytes of the sendall under way
Take(cn, k) ==
    [cn EXCEPT !.written = @ \o SubSeq(cn.out, 1, k),
               !.out = SubSeq(cn.out, k + 1, Len(cn.out))]

\* sendall raises a socket error: the loop is left
Broken(cn, h) ==
    [cn |-> [cn EXCEPT !.out = <<>>], h |-> [h EXCEPT !.failed = TRUE], done |-> TRUE]

\* A sendall under way, cn.out still to be written.  On a connection the
\* peer has reset it raises.  Otherwise the connection takes some of the
\* bytes (at least `least`): all of them and sendall returns, fewer and it
\* waits for room; or the peer resets the connection while sendall waits,
\* and it raises with fewer than all bytes written.
Under(cn, h, least) ==
    IF Reset(cn) THEN {Broken(cn, h)}
    ELSE {[cn |-> Take(cn, k), h |-> h, done |-> FALSE] : k \in least..Len(cn.out)}
         \cup (IF MayReset(cn)
               THEN {Broken([Take(cn, k) EXCEPT !.peer = AfterReset(cn.peer)], h) :
                        k \in 0..(Len(cn.out) - 1)}
               ELSE {})

\* A whole turn of the loop with result r (of serve, HandlerRun or
\* handle_connection): a failed sendall is one on a reset connection
AfterTurn(cn, h, r, reply) ==
    [cn |-> [cn EXCEPT !.rpos = @ + r.nread, !.written = @ \o r.wrote,
                       !.peer = IF r.sends = 1 /\ r.failed /\ ~Reset(cn)
                                THEN AfterReset(@) ELSE @],
     h |-> [h EXCEPT !.reads = @ + 1, !.sends = @ + r.sends,
                     !.failed = @ \/ r.failed,
                     !.lastSend = IF prog = "server03" /\ r.sends > 0 THEN reply ELSE @],
     done |-> r.done]

\* Whether a turn's sendall can end with `taken` bytes written: none on a
\* connection already reset, fewer than all only when the peer resets
Fits(cn, r, taken) ==
    /\ r.sends = 0 => taken = 0
    /\ (r.sends = 1 /\ Reset(cn)) => taken = 0
    /\ (r.sends = 1 /\ r.failed /\ ~Reset(cn)) => MayReset(cn)

\* What the code serving client c can do next, from where it is: inside
\* sendall; between recv and sendall (a chunk received, `pending` to be
\* sent); or at recv, where turn[t] is the turn of its loop whose sendall
\* ends with t bytes written and `fresh` the reply to the bytes recv hands
\* out.  From recv it gets through the whole turn, or it is descheduled
\* when recv has returned, or it waits inside sendall.
ServeOutcomes(c, turn, pending, fresh) ==
    LET cn == conn[c]
        h == hist[c]
    IN
    IF cn.out # <<>> THEN Under(cn, h, 1)
    ELSE IF h.reads > h.sends
    THEN Under(Called(cn, h, pending).cn, Called(cn, h, pending).h, 0)
    ELSE IF ~RecvReturns(c) THEN {}
    ELSE LET whole == {AfterTurn(cn, h, turn[t], fresh) :
                          t \in {u \in DOMAIN turn : Fits(cn, turn[u], u)}}
             got == Received(cn, h, turn[0].nread)
             call == Called(got.cn, got.h, fresh)
         IN IF turn[0].sends = 0 THEN whole
            ELSE whole \cup {got}
                       \cup (IF Reset(cn) THEN {}
                             ELSE {[cn |-> Take(call.cn, k), h |-> call.h, done |-> FALSE] :
                                      k \in 0..(Len(fresh) - 1)})

\* The outcome o becomes the state of client c; the finally clause (the with
\* block in server03) closes the socket when the loop has been left
Becomes(c, o, by) ==
    /\ conn' = [conn EXCEPT ![c] = IF o.done
                                   THEN [o.cn EXCEPT !.state = "closed", !.out = <<>>]
                                   ELSE o.cn]
    /\ hist' = [hist EXCEPT ![c] = IF o.done THEN ClientClose(o.h, by) ELSE o.h]

\* start accepting again without waiting for serve to return
Accept01_NoWait ==
    /\ prog = "server01"
    /\ loop = "RUNNING"
    /\ IF serv_sock.state # "listening"
       THEN /\ StartExit("accept_error")
            /\ UNCHANGED <<backlog, conn, hist, cur>>
       ELSE /\ backlog # <<>>
            /\ LET c == Head(backlog) IN
                  /\ backlog' = Tail(backlog)
                  /\ conn' = [conn EXCEPT ![c].state = "accepted",
                                          ![c].fd = LowestFreeFd(UsedFds(serv_sock, conn))]
                  /\ hist' = [hist EXCEPT ![c].connects = @ + 1]
                  /\ cur' = c
            /\ UNCHANGED <<loop, stopCause, exitKind, serv_sock>>
    /\ UNCHANGED <<prog, vars04, threads>>

\* Server.start of server01, accepting: accept_client(), then serve(client_socket)
Accept01 ==
    /\ prog = "server01"
    /\ loop = "RUNNING"
    /\ cur = 0
    /\ IF serv_sock.state # "listening"
       THEN \* accept() on the closed socket raises OSError
            /\ StartExit("accept_error")
            /\ UNCHANGED <<backlog, conn, hist, cur>>
       ELSE /\ backlog # <<>>
            /\ LET c == Head(backlog) IN
                  /\ backlog' = Tail(backlog)
                  /\ conn' = [conn EXCEPT ![c].state = "accepted",
                                          ![c].fd = LowestFreeFd(UsedFds(serv_sock, conn))]
                  /\ hist' = [hist EXCEPT ![c].connects = @ + 1]
                  /\ cur' = c
            /\ UNCHANGED <<loop, stopCause, exitKind, serv_sock>>
    /\ UNCHANGED <<prog, vars04, threads>>

\* Server.serve of server01 for the client being served: a turn of its loop,
\* or a part of one (see ServeOutcomes)
Serve01 ==
    /\ prog = "server01"
    /\ loop = "RUNNING"
    /\ cur # 0
    /\ \E o \in ServeOutcomes(cur, [t \in 0..Len(OK_REPLY) |-> serve(conn[cur], t)],
                                             OK_REPLY, OK_REPLY) :
          /\ Becomes(cur, o, "serve")
          /\ cur' = IF o.done THEN 0 ELSE cur
    /\ UNCHANGED <<prog, loop, stopCause, exitKind, serv_sock, backlog, vars04, threads>>

\* KeyboardInterrupt in server01: start's except clause prints and its finally
\* closes the listening socket.  The signal lands wherever the program is:
\*   - in the constructor or before start's try block (InitCut);
\*   - blocked in accept: nothing else changes;
\*   - when accept has returned and serve is not entered yet: the accepted
\*     socket is closed by nobody;
\*   - in serve, where it is or after any part of a turn of its loop (recv
\*     has returned, sendall has written some bytes): serve's finally closes
\*     the client socket, unless the loop has been left and the signal
\*     lands in the finally clause itself before close() is called, which
\*     leaves the socket open.
Interrupt01 ==
    /\ prog = "server01"
    /\ IF loop \in {"INIT", "LISTENING"}
       THEN /\ InitCut
            /\ UNCHANGED <<backlog, conn, hist, cur>>
       ELSE /\ loop = "RUNNING"
            /\ StartExit("interrupt")
            /\ \/ /\ cur = 0
                  /\ UNCHANGED <<backlog, conn, hist, cur>>
               \/ /\ cur = 0
                  /\ serv_sock.state = "listening"
                  /\ backlog # <<>>
                  /\ LET c == Head(backlog) IN
                        /\ backlog' = Tail(backlog)
                        /\ conn' = [conn EXCEPT ![c].state = "accepted",
                                                ![c].fd = LowestFreeFd(UsedFds(serv_sock, conn))]
                        /\ hist' = [hist EXCEPT ![c].connects = @ + 1]
                        /\ cur' = c
               \/ /\ cur # 0
                  /\ backlog' = backlog
                  /\ \E o \in {[cn |-> conn[cur], h |-> hist[cur], done |-> FALSE]}
                               \cup ServeOutcomes(cur, [t \in 0..Len(OK_REPLY) |->
                                                           serve(conn[cur], t)],
                                                  OK_REPLY, OK_REPLY),
                        closed \in BOOLEAN :
                        /\ closed \/ o.done
                        /\ Becomes(cur, [o EXCEPT !.done = closed], "serve")
                        /\ cur' = IF closed THEN 0 ELSE cur
    /\ UNCHANGED <<prog, vars04, threads>>

\* server02: the accepted client sockets the main thread has not started a
\* Handler thread for yet (it is between accept_client() and thread.start())
Unstarted == {c \in Clients : conn[c].state = "accepted" /\ threads[c] = "none"}

\* The code serving client c is inside sendall
InSendall(c) == conn[c].out # <<>>

\* Server.start of server02: accept_client(), Handler(client_socket),
\* thread.start().  The threads of the process interleave: the main thread
\* may be descheduled when accept has returned (started = FALSE) and start
\* the Handler thread in a later step.
Accept02 ==
    /\ prog = "server02"
    /\ loop = "RUNNING"
    /\ IF Unstarted # {}
       THEN \* Handler(client_socket), thread.start(), back to accept
            /\ threads' = [c \in Clients |-> IF c \in Unstarted THEN "running" ELSE threads[c]]
            /\ UNCHANGED <<loop, stopCause, exitKind, serv_sock, backlog, conn, hist>>
       ELSE IF serv_sock.state # "listening"
       THEN /\ StartExit("accept_error")
            /\ UNCHANGED <<backlog, conn, hist, threads>>
       ELSE /\ backlog # <<>>
            /\ LET c == Head(backlog) IN
                  /\ backlog' = Tail(backlog)
                  /\ conn' = [conn EXCEPT ![c].state = "accepted",
                                          ![c].fd = LowestFreeFd(UsedFds(serv_sock, conn))]
                  /\ hist' = [hist EXCEPT ![c].connects = @ + 1]
                  /\ \E started \in BOOLEAN :
                        threads' = [threads EXCEPT ![c] = IF started THEN "running" ELSE @]
            /\ UNCHANGED <<loop, stopCause, exitKind, serv_sock>>
    /\ UNCHANGED <<prog, vars04, cur>>

\* Handler.run of server02 in the thread of client c: a turn of its loop, or a
\* part of one, the threads of the process interleaving (see ServeOutcomes)
HandlerStep(c) ==
    /\ prog = "server02"
    /\ threads[c] = "running"
    /\ \E o \in ServeOutcomes(c, [t \in 0..Len(OK_REPLY) |-> HandlerRun(conn[c], t)],
                                 OK_REPLY, OK_REPLY) :
          /\ Becomes(c, o, "Handler.run")
          /\ threads' = [threads EXCEPT ![c] = IF o.done THEN "done" ELSE @]
    /\ UNCHANGED <<prog, loop, stopCause, exitKind, serv_sock, backlog, vars04, cur>>

\* KeyboardInterrupt in the main thread of server02: start's except clause
\* prints, its finally closes the listening socket; the Handler threads go
\* on.  The signal lands while the main thread is blocked in accept or has
\* an accepted socket in hand, or when accept has just returned: the socket
\* accepted last has no Handler thread and nobody closes it.  In the
\* constructor or before start's try block it is InitCut.
Interrupt02 ==
    /\ prog = "server02"
    /\ IF loop \in {"INIT", "LISTENING"}
       THEN /\ InitCut
            /\ UNCHANGED <<backlog, conn, hist>>
       ELSE /\ loop = "RUNNING"
            /\ StartExit("interrupt")
            /\ \/ UNCHANGED <<backlog, conn, hist>>
               \/ /\ Unstarted = {}
                  /\ serv_sock.state = "listening"
                  /\ backlog # <<>>
                  /\ LET c == Head(backlog) IN
                        /\ backlog' = Tail(backlog)
                        /\ conn' = [conn EXCEPT ![c].state = "accepted",
                                                ![c].fd = LowestFreeFd(UsedFds(serv_sock, conn))]
                        /\ hist' = [hist EXCEPT ![c].connects = @ + 1]
    /\ UNCHANGED <<prog, vars04, vars0102>>

\* --------------------------------------------------------------- server03
ConnectionResult == [done |-> FALSE, nread |-> 0, arg |-> <<>>, wrote |-> <<>>,
                     sends |-> 0, failed |-> FALSE]

\* One turn of the while loop of handle_connection(sock, addr): recv(1024),
\* the b"close" test, sendall(data.upper()); done when the loop is left and
\* the with block closes the socket
handle_connection(cn, taken) ==
    LET r == Recv(cn)
        s == Sendall(Upper(r.data), taken)
    IN
    IF r.exc # "none" THEN [ConnectionResult EXCEPT !.done = TRUE, !.failed = TRUE]
    ELSE IF r.data = <<>> THEN [ConnectionResult EXCEPT !.done = TRUE]
    ELSE IF r.data = CLOSE THEN [ConnectionResult EXCEPT !.done = TRUE, !.nread = Len(r.data)]
    ELSE IF s.ok
    THEN [ConnectionResult EXCEPT !.nread = Len(r.data), !.arg = Upper(r.data),
                                  !.wrote = s.wrote, !.sends = 1]
    ELSE [ConnectionResult EXCEPT !.done = TRUE, !.nread = Len(r.data),
                                  !.arg = Upper(r.data), !.wrote = s.wrote,
                                  !.sends = 1, !.failed = TRUE]

\* The main program of server03: the listening socket is set up inside a
\* with block; when that fails the error leaves the program and the with
\* block closes the socket
Setup03 ==
    /\ prog = "server03"
    /\ loop = "INIT"
    /\ \E bindOk \in BOOLEAN :
          LET ss == [serv_sock EXCEPT !.state = "open",
                                      !.fd = LowestFreeFd(UsedFds(serv_sock, conn))]
          IN IF bindOk
             THEN /\ serv_sock' = [ss EXCEPT !.state = "listening"]
                  /\ loop' = "RUNNING"
                  /\ UNCHANGED <<stopCause, exitKind>>
             ELSE /\ serv_sock' = SockClose(ss)
                  /\ loop' = "STOPPED"
                  /\ stopCause' = "setup_error"
                  /\ exitKind' = "uncaught"
    /\ UNCHANGED <<prog, backlog, conn, hist, vars04, vars0102>>

\* The main program of server03 accepts a connection and starts a process
\* that runs handle_connection on it
Accept03 ==
    /\ prog = "server03"
    /\ loop = "RUNNING"
    /\ backlog # <<>>
    /\ LET c == Head(backlog) IN
          /\ backlog' = Tail(backlog)
          /\ conn' = [conn EXCEPT ![c].state = "accepted",
                                  ![c].fd = LowestFreeFd(UsedFds(serv_sock, conn))]
          /\ hist' = [hist EXCEPT ![c].connects = @ + 1]
          /\ threads' = [threads EXCEPT ![c] = "running"]
    /\ UNCHANGED <<prog, loop, stopCause, exitKind, serv_sock, vars04, cur>>

\* The chunk a process has received and not answered yet: every chunk before
\* it was written back in full
PendingData(cn) == SubSeq(cn.sent, Len(cn.written) + 1, cn.rpos)

\* handle_connection in the process of client c: a turn of its loop, or a
\* part of one, the processes interleaving (see ServeOutcomes)
ConnectionStep(c) ==
    /\ prog = "server03"
    /\ threads[c] = "running"
    /\ \E o \in ServeOutcomes(c, [t \in 0..Len(Recv(conn[c]).data) |->
                                     handle_connection(conn[c], t)],
                               Upper(PendingData(conn[c])), Upper(Recv(conn[c]).data)) :
          /\ Becomes(c, o, "handle_connection")
          /\ threads' = [threads EXCEPT ![c] = IF o.done THEN "done" ELSE @]
    /\ UNCHANGED <<prog, loop, stopCause, exitKind, serv_sock, backlog, vars04, cur>>

\* ------------------------------------------------------------ environment
\* The process is alive: the main thread is in its loop or about to enter
\* it with the socket listening, or (server02) a
\* Handler thread is still running after start() has returned
Alive == loop \in {"LISTENING", "RUNNING"} \/ \E d \in Clients : threads[d] = "running"

\* A client connects, as soon as the socket listens (the loop need not be
\* entered yet): the connection waits in the accept queue, which takes one
\* connection more than the backlog of listen().
ClientConnect(c) ==
    /\ serv_sock.state = "listening"
    /\ loop \in {"LISTENING", "RUNNING"}
    /\ conn[c].state = "idle"
    /\ ClientSteps(conn) < MaxClientSteps
    /\ Len(backlog) <= BACKLOG
    /\ backlog' = Append(backlog, c)
    /\ conn' = [conn EXCEPT ![c].state = "queued"]
    /\ UNCHANGED <<prog, loop, stopCause, exitKind, serv_sock, hist, vars04, vars0102>>

\* A client sends one chunk of bytes.
ClientSendChunk(c, m) ==
    /\ Alive
    /\ conn[c].state \in {"queued", "accepted"}
    /\ conn[c].peer = "open"
    /\ ClientSteps(conn) < MaxClientSteps
    /\ conn' = [conn EXCEPT ![c].sent = @ \o m, ![c].nsent = @ + 1]
    /\ UNCHANGED <<prog, loop, stopCause, exitKind, serv_sock, backlog, hist, vars04,
                   vars0102>>

ClientSend(c) == \E m \in Chunks : ClientSendChunk(c, m)

\* A client shuts its side down in an orderly way (FIN).
ClientShutdown(c) ==
    /\ Alive
    /\ conn[c].state \in {"queued", "accepted"}
    /\ conn[c].peer = "open"
    /\ ClientSteps(conn) < MaxClientSteps
    /\ conn' = [conn EXCEPT ![c].peer = "fin"]
    /\ UNCHANGED <<prog, loop, stopCause, exitKind, serv_sock, backlog, hist, vars04,
                   vars0102>>

\* A client resets its connection (RST), also one that has shut down its
\* sending side before.  A connection still in the accept
\* queue is kept there (accept hands it out all the same, as Linux does) or
\* is removed from it before accept is called (accept(2): "the connection
\* might have been removed by an asynchronous network error"; BSD-derived
\* stacks do so on a reset), as the platform the program runs on decides.
ClientReset(c) ==
    /\ Alive
    /\ conn[c].state \in {"queued", "accepted"}
    /\ ~Reset(conn[c])
    /\ ClientSteps(conn) < MaxClientSteps
    /\ \E drop \in BOOLEAN :
          IF drop
          THEN /\ conn[c].state = "queued"
               /\ backlog' = SelectSeq(backlog, LAMBDA x : x # c)
               /\ conn' = [conn EXCEPT ![c].peer = AfterReset(@), ![c].state = "aborted"]
          ELSE /\ backlog' = backlog
               /\ conn' = [conn EXCEPT ![c].peer = AfterReset(@)]
    /\ UNCHANGED <<prog, loop, stopCause, exitKind, serv_sock, hist, vars04, vars0102>>

\* ----------------------------------------------------------- specification
Init ==
    /\ prog \in Programs
    /\ loop = "INIT"
    /\ stopCause = "none"
    /\ exitKind = "none"
    /\ serv_sock = NewSock
    /\ sel = <<>>
    /\ events = {}
    /\ backlog = <<>>
    /\ conn = [c \in Clients |-> NewConn]
    /\ hist = [c \in Clients |-> NewHist]
    /\ cur = 0
    /\ threads = [c \in Clients |-> "none"]

Next ==
    \/ Setup04
    \/ Register04
    \/ Select
    \/ DispatchAny
    \/ SelectError
    \/ Interrupt04
    \/ ServerInit
    \/ ServerStart
    \/ Accept01
    \/ Serve01
    \/ Interrupt01
    \/ Accept02
    \/ \E c \in Clients : HandlerStep(c)
    \/ Interrupt02
    \/ Setup03
    \/ Accept03
    \/ \E c \in Clients : ConnectionStep(c)
    \/ \E c \in Clients : ClientConnect(c)
    \/ \E c \in Clients : ClientSend(c)
    \/ \E c \in Clients : ClientShutdown(c)
    \/ \E c \in Clients : ClientReset(c)

Spec == Init /\ [][Next]_vars

\* The stress scenario: run_server with clients that connect and send one
\* chunk each, none of them b"close"; nobody hangs up, nothing fails.
\* Messages of the scenario: b"a", b"Hi" (clients can differ in what they send)
StressChunks == {<<97>>, <<72, 105>>}

StressSend(c) ==
    /\ conn[c].nsent = 0
    /\ \E m \in StressChunks : ClientSendChunk(c, m)

DispatchQuiet == Dispatch({IoQuiet})

StressInit == Init /\ prog = "server04"

StressNext ==
    \/ Setup04
    \/ Register04
    \/ Select
    \/ DispatchQuiet
    \/ \E c \in Clients : ClientConnect(c)
    \/ \E c \in Clients : StressSend(c)

\* run_server keeps running: the setup goes on to the loop, select returns
\* when something is ready, and every returned key is dispatched.
StressSpec ==
    StressInit /\ [][StressNext]_vars /\ WF_vars(Register04) /\ WF_vars(Select)
        /\ WF_vars(DispatchQuiet)

\* run_server alone, with its loop scheduled fairly: as long as it runs, the
\* loop calls select whenever it has dispatched every key of the ready list,
\* select returns when a registered descriptor is ready, and the for loop
\* goes on to the next key.  Clients connect and send b"Hi" chunk after
\* chunk without end: a client sends its next chunk as soon as the server has
\* read the one before, so that it can be readable in every iteration of
\* the loop.  Nobody hangs up and no call fails.
BusyChunks == {<<72, 105>>}

BusyConnect(c) ==
    /\ serv_sock.state = "listening"
    /\ loop \in {"LISTENING", "RUNNING"}
    /\ conn[c].state = "idle"
    /\ Len(backlog) <= BACKLOG
    /\ backlog' = Append(backlog, c)
    /\ conn' = [conn EXCEPT ![c].state = "queued"]
    /\ UNCHANGED <<prog, loop, stopCause, exitKind, serv_sock, hist, vars04, vars0102>>

\* The next chunk of a busy client.  The exchanges that are over are
\* forgotten (the stream starts again at the new chunk, the history keeps
\* that there were reads and sends, not how many), which keeps the states of
\* a run without end finitely many.
BusySend(c) ==
    /\ loop \in {"LISTENING", "RUNNING"}
    /\ conn[c].state \in {"queued", "accepted"}
    /\ conn[c].peer = "open"
    /\ Unread(conn[c]) = <<>>
    /\ \E m \in BusyChunks :
          conn' = [conn EXCEPT ![c].sent = m, ![c].rpos = 0, ![c].written = <<>>,
                               ![c].nsent = Min(@ + 1, 2)]
    /\ hist' = [hist EXCEPT ![c].reads = Min(@, 1), ![c].sends = Min(@, 1),
                             ![c].steps = SubSeq(@, 1, Min(Len(@), Len(AcceptSteps) + 1))]
    /\ UNCHANGED <<prog, loop, stopCause, exitKind, serv_sock, backlog, vars04, vars0102>>

LoopInit == Init /\ prog = "server04"

LoopNext ==
    \/ Setup04
    \/ Register04
    \/ Select
    \/ DispatchQuiet
    \/ \E c \in Clients : BusyConnect(c)
    \/ \E c \in Clients : BusySend(c)

LoopSpec ==
    LoopInit /\ [][LoopNext]_vars /\ WF_vars(Register04) /\ WF_vars(Select)
        /\ WF_vars(DispatchQuiet)

\* ------------------------------------------------------------------ claims
\* The registrations of file object d in a selector table
RegOf(table, d) == {table[f] : f \in {g \in DOMAIN table : table[g].fileobj = d}}

Registered(d) == RegOf(sel, d) # {}

HasKey(evs, d) == \E k \in evs : k.fileobj = d

\* C1: in run_server, a failure on one client connection (reset while reading,
\* getpeername failing, a send that fails or would block) leaves the loop
\* RUNNING and every other connection's registration as it was (the step is
\* not one in which an interrupt stops the program).
C1_FailureIsIsolated ==
    [][\A c \in Clients :
          (/\ prog = "server04"
           /\ ~hist[c].failed /\ hist'[c].failed
           /\ stopCause' # "interrupt") =>
              /\ loop' = "RUNNING"
              /\ \A d \in Clients \ {c} : RegOf(sel', d) = RegOf(sel, d)]_vars

\* C2: when the listening descriptor is dispatched and accept fails because
\* nothing is pending, the handler returns: the loop stays RUNNING and the
\* registration table, the listener's entry included, is as it was.
C2_FailedAcceptReturns ==
    [][(/\ prog = "server04"
        /\ loop = "RUNNING"
        /\ backlog = <<>>
        /\ HasKey(events, LISTENER)
        /\ ~HasKey(events', LISTENER)
        /\ stopCause' # "interrupt") =>
            (loop' = "RUNNING" /\ sel' = sel /\ Registered(LISTENER))]_vars

\* C3: once the read of an accepted connection yields zero bytes or exactly
\* b"close", on_disconnect has run exactly once for it, its descriptor is out
\* of the registration table and closed, and no handler is dispatched for it
\* again (none is pending in the ready list either).  A KeyboardInterrupt
\* ends the program wherever it lands, also inside the callback: then
\* on_disconnect has run at most once and nothing is dispatched any more.
C3_EndOfStreamDisconnectsOnce ==
    \A c \in Clients :
        (prog = "server04" /\ hist[c].eof) =>
            /\ hist[c].disconnects <= 1
            /\ ~HasKey(events, c)
            /\ ~hist[c].late
            /\ stopCause # "interrupt" =>
                  /\ hist[c].disconnects = 1
                  /\ ~Registered(c)
                  /\ conn[c].state = "closed"

\* One connection ended by b"close", another by a zero-length read, and the
\* loop went on to select again.
C3_Witness ==
    /\ prog = "server04"
    /\ loop = "RUNNING"
    /\ \E c, d \in Clients :
          /\ hist[c].eof /\ conn[c].peer = "open" /\ hist[c].disconnects = 1
          /\ hist[d].eof /\ conn[d].peer = "fin" /\ hist[d].disconnects = 1

\* C4: no client descriptor is closed twice, none is closed anywhere but in
\* the disconnect path of on_read_ready, and the disconnect path is entered at
\* most once per descriptor, whatever accepts, reads, errors and loop
\* terminations happen.
C4_ClientClosedOnceByDisconnectPath ==
    \A c \in Clients :
        prog = "server04" =>
            /\ hist[c].closes <= 1
            /\ hist[c].disconnects <= 1
            /\ hist[c].closes = 1 => (hist[c].closedBy = "on_read_ready" /\ hist[c].disconnects = 1)
            /\ (conn[c].state = "closed") = (hist[c].closes = 1)

\* The loop has terminated with one client closed by the disconnect path and
\* another still open.
C4_Witness ==
    /\ prog = "server04"
    /\ loop = "STOPPED"
    /\ \E c, d \in Clients :
          /\ hist[c].closes = 1
          /\ conn[d].state = "accepted" /\ hist[d].closes = 0

\* C5: while the loop runs, the bytes written to an open client connection are
\* exactly the upper-cased bytes received from that same connection so far,
\* complete and in order.
C5_EchoIsCompleteAndOwn ==
    \A c \in Clients :
        (prog = "server04" /\ loop = "RUNNING" /\ conn[c].state = "accepted") =>
            conn[c].written = Upper(SubSeq(conn[c].sent, 1, conn[c].rpos))

\* C6: a send that fails inside on_read does not end the loop; the connection
\* goes through the disconnect path (on_disconnect, unregister, close), in
\* every run that no interrupt has ended.
C6_SendErrorDisconnects ==
    \A c \in Clients :
        (prog = "server04" /\ hist[c].sendErr # "none" /\ stopCause # "interrupt") =>
            /\ stopCause # "read_error"
            /\ hist[c].disconnects = 1
            /\ ~Registered(c)
            /\ conn[c].state = "closed"

\* C7: the event loop leaves RUNNING for STOPPED only on an external stop
\* signal or on a failure of the selector's wait call, never on an outcome of
\* the accept handler or of a connection handler.
C7_StopOnlyBySignalOrSelect ==
    [][(prog = "server04" /\ loop = "RUNNING" /\ loop' = "STOPPED") =>
            stopCause' \in {"interrupt", "select_error"}]_vars

\* C8: whenever run_server of server04 or the server of server01 or of
\* server02 has stopped, by an interrupt or by an error, the listening
\* socket it has made is closed, and close() was called on it exactly once.
C8_ListenerClosedOnceOnStop ==
    (prog \in {"server01", "server02", "server04"} /\ loop = "STOPPED"
        /\ serv_sock.state # "none") =>
            (serv_sock.state = "closed" /\ serv_sock.closeCalls = 1)

\* The message of connection c was answered once, in full, and c is still open
Served(c) ==
    /\ hist[c].sends = 1
    /\ conn[c].written = Upper(conn[c].sent)
    /\ conn[c].state = "accepted"
    /\ Registered(c)

\* C9: with the clients connected and each sending one message (not b"close"),
\* every sent message is eventually answered by exactly one reply on its own
\* connection, no message is answered twice, and every accepted connection
\* stays open and registered.
C9_EveryMessageAnsweredOnce ==
    /\ \A c \in Clients : (conn[c].nsent = 1) ~> Served(c)
    /\ [](\A c \in Clients :
             /\ hist[c].sends <= conn[c].nsent
             /\ hist[c].connects > 0 => (conn[c].state = "accepted" /\ Registered(c)))

\* Every client has sent its message and has its reply.
C9_Witness == \A c \in Clients : conn[c].nsent = 1 /\ Served(c)

\* C10: every descriptor, the listener and every client, has at most one entry
\* in the registration table, filed under its own descriptor number, and every
\* entry's interest mask is READABLE only.
C10_OneReadableEntryPerDescriptor ==
    prog = "server04" =>
        /\ \A d \in {LISTENER} \cup Clients : Cardinality(RegOf(sel, d)) <= 1
        /\ \A f \in DOMAIN sel : sel[f].fd = f /\ sel[f].events = EVENT_READ

\* Listener and a client registered, the client on the descriptor number a
\* closed connection had before.
C10_Witness ==
    /\ prog = "server04"
    /\ Registered(LISTENER)
    /\ \E c, d \in Clients :
          /\ conn[c].state = "closed"
          /\ conn[d].state = "accepted" /\ Registered(d)
          /\ conn[d].fd = conn[c].fd

\* Whether the step from history h to history g of a connection takes the
\* named step of a callback
StepTaken(h, g, step) == \E i \in (Len(h.steps) + 1)..Len(g.steps) : g.steps[i] = step

\* C11: no run of run_server meets the failure of register (the descriptor
\* is in the registration table already) or of unregister (it is not in the
\* table): the loop never stops on either, every register call finds the
\* descriptor of the new socket free and files the socket under it, every
\* unregister call finds the descriptor of its socket in the table and
\* takes it out, and no call touches the entry of another descriptor.
C11_RegistrationErrors ==
    [][prog = "server04" =>
          /\ stopCause' \notin {"register_error", "unregister_error"}
          /\ \A f \in DOMAIN sel \cap DOMAIN sel' : sel'[f] = sel[f]
          /\ \A c \in Clients :
                /\ StepTaken(hist[c], hist'[c], "register") =>
                      /\ conn'[c].fd \notin DOMAIN sel
                      /\ conn'[c].fd \in DOMAIN sel'
                      /\ sel'[conn'[c].fd].fileobj = c
                /\ StepTaken(hist[c], hist'[c], "unregister") =>
                      /\ conn[c].fd \in DOMAIN sel
                      /\ sel[conn[c].fd].fileobj = c
                      /\ conn[c].fd \notin DOMAIN sel']_vars

\* Registrations have come and gone: one connection was unregistered, another
\* is registered next to the listener, and the loop has met no error.
C11_Witness ==
    /\ prog = "server04"
    /\ stopCause = "none"
    /\ Cardinality(DOMAIN sel) = 2
    /\ \E c, d \in Clients :
          /\ hist[c].disconnects = 1 /\ ~Registered(c)
          /\ Registered(d)

\* C12: when sel.select() fails, the loop is STOPPED, the listening socket is
\* closed and the process ends with a failure indication (the error leaves
\* the program), not by a normal return.
C12_SelectFailureExitsNonZero ==
    (prog = "server04" /\ stopCause = "select_error") =>
        /\ loop = "STOPPED"
        /\ serv_sock.state = "closed"
        /\ exitKind = "uncaught"

\* The accepted client sockets that are open
OpenClients(cn) == {c \in Clients : cn[c].state = "accepted"}

\* C13: server01 has at most one accepted client socket open at any time; it
\* accepts a connection only when no accepted socket is open (the one before
\* was closed), and it serves (reads from) nobody but the one open socket.
C13_OneClientAtATime ==
    [][prog = "server01" =>
          /\ Cardinality(OpenClients(conn')) <= 1
          /\ \A c \in Clients :
                /\ hist'[c].connects > hist[c].connects => OpenClients(conn) = {}
                /\ hist'[c].reads > hist[c].reads => OpenClients(conn) = {c}]_vars

\* server01 is serving a client it has read from, while a second client has
\* connected and sent bytes and waits in the accept queue.
C13_Witness ==
    /\ prog = "server01"
    /\ cur # 0
    /\ conn[cur].state = "accepted" /\ hist[cur].reads > 0
    /\ backlog # <<>>
    /\ conn[Head(backlog)].sent # <<>>

\* The steps of the disconnect path among the steps taken for a connection
DisconnectSteps(h) ==
    SelectSeq(h.steps, LAMBDA x : x \in {"on_disconnect", "unregister", "close"})

\* C14: for every connection the disconnect path runs on_disconnect, then
\* unregister, then close, in that order; on_disconnect is called while the
\* descriptor is still registered; a closed descriptor is never registered,
\* and an accepted one is never out of the table before on_disconnect ran.
C14_DisconnectOrder ==
    \A c \in Clients :
        prog = "server04" =>
            /\ DisconnectSteps(hist[c]) \in
                   {<<>>, <<"on_disconnect">>, <<"on_disconnect", "unregister">>,
                    <<"on_disconnect", "unregister", "close">>}
            /\ hist[c].disconnects > 0 => hist[c].regAtDisc
            /\ conn[c].state = "closed" => ~Registered(c)
            /\ (hist[c].connects > 0 /\ ~Registered(c)) => hist[c].disconnects > 0

\* A connection that was echoed to and then went through the disconnect path.
C14_Witness ==
    /\ prog = "server04"
    /\ \E c \in Clients :
          /\ conn[c].written # <<>>
          /\ DisconnectSteps(hist[c]) = <<"on_disconnect", "unregister", "close">>
          /\ conn[c].state = "closed"

\* C15: every accepted connection was set non-blocking, then registered for
\* READABLE with on_read_ready as its handler, then announced by on_connect,
\* once; on_connect comes before every on_read of the connection, and every
\* on_read before its on_disconnect.  When a KeyboardInterrupt ends the
\* program inside on_accept_ready, the steps taken so far are the first ones
\* of that order and no callback follows.
C15_AcceptOrder ==
    \A c \in Clients :
        prog = "server04" =>
            LET st == hist[c].steps
                n == Min(3, Len(st))
            IN
            /\ hist[c].connects <= 1
            /\ SubSeq(st, 1, n) = SubSeq(<<"setblocking", "register", "on_connect">>, 1, n)
            /\ (hist[c].connects = 1) = (Len(st) >= 3)
            /\ conn[c].state \in {"accepted", "closed"} => (conn[c].nonblocking = (Len(st) >= 1))
            /\ RegOf(sel, c) \subseteq
                   {[fileobj |-> c, fd |-> conn[c].fd, events |-> EVENT_READ,
                     data |-> "on_read_ready"]}
            /\ Registered(c) => Len(st) >= 2
            /\ (conn[c].state \in {"accepted", "closed"} /\ stopCause # "interrupt") =>
                  /\ hist[c].connects = 1
                  /\ conn[c].nonblocking
                  /\ conn[c].state = "accepted" => Registered(c)
            /\ \A i \in 1..Len(st) :
                  /\ st[i] = "on_connect" => i = 3
                  /\ st[i] = "on_read" =>
                        (i > 3 /\ \A j \in 1..i : st[j] # "on_disconnect")

\* A connection that was accepted, read from twice and then disconnected.
C15_Witness ==
    /\ prog = "server04"
    /\ \E c \in Clients :
          /\ hist[c].connects = 1
          /\ hist[c].reads >= 2
          /\ hist[c].disconnects = 1

\* Connection c has something for the loop to do: it waits in the accept
\* queue, or it is registered and readable
Waiting(c) == conn[c].state = "queued" \/ (Registered(c) /\ Readable(c))

\* C16: while the loop runs, each key of the ready list has its handler
\* invoked once (the key leaves the list, nothing else does), a connection
\* handler does one read of at most RECV_SIZE bytes and the accept handler
\* one accept, and nobody is read from who is not in the list; so a readable
\* client and a pending connection are served, however busy the other
\* clients are (also one that is readable in every iteration), unless the
\* loop stops.
C16_NoStarvation ==
    /\ [][(prog = "server04" /\ loop = "RUNNING" /\ loop' = "RUNNING") =>
            /\ (events # {} /\ events' # events) =>
                  \E key \in events :
                     /\ events' = events \ {key}
                     /\ IF key.fileobj = LISTENER
                        THEN /\ Len(backlog') = Len(backlog) - 1
                             /\ \A c \in Clients : hist'[c].reads = hist[c].reads
                        ELSE /\ hist'[key.fileobj].reads = hist[key.fileobj].reads + 1
                             /\ conn'[key.fileobj].rpos - conn[key.fileobj].rpos <= RECV_SIZE
                             /\ \A c \in Clients \ {key.fileobj} : hist'[c] = hist[c]
            /\ \A c \in Clients :
                  hist'[c].reads > hist[c].reads => HasKey(events, c)]_vars
    /\ \A c \in Clients :
          (loop = "RUNNING" /\ Waiting(c)) ~> (~Waiting(c) \/ loop = "STOPPED")

\* Two clients are in the ready list of the same iteration, one of them busy
\* (it was read from and answered before and has bytes waiting again), the
\* other not read from yet.
C16_Witness ==
    /\ prog = "server04"
    /\ loop = "RUNNING"
    /\ \E c, d \in Clients :
          /\ c # d
          /\ HasKey(events, c) /\ HasKey(events, d)
          /\ hist[c].reads > 0 /\ hist[c].sends > 0 /\ Unread(conn[c]) # <<>>
          /\ hist[d].reads = 0

\* p is the beginning of q
Prefix(p, q) == Len(p) <= Len(q) /\ SubSeq(q, 1, Len(p)) = p

\* The step from cn to cn2 is what a sendall(data) call of handle_connection
\* does to the connection: it goes on (the bytes are written or sendall is
\* still at it) with the connection open, or, when `kept` is FALSE, it may
\* also fail on a connection the peer has reset, with less than all bytes
\* written, and the connection is closed
SendallStep(cn, cn2, data, failed, kept) ==
    IF failed /\ ~kept
    THEN /\ cn2.state = "closed"
         /\ Reset(cn2)
         /\ Prefix(cn.written, cn2.written)
         /\ Prefix(cn2.written, cn.written \o data)
         /\ cn2.written # cn.written \o data
    ELSE /\ cn2.state = "accepted"
         /\ cn2.written \o cn2.out = cn.written \o data

\* The chunk rule of handle (server04) and handle_connection (server03) on
\* the step of client c; with `kept` the connection is kept whatever the
\* send does, without it a send that raises ConnectionError leads to the
\* disconnect path (server04) or out of the loop (server03)
ChunkRule(c, kept) ==
    LET r == Recv(conn[c])
        chunk == r.exc = "none" /\ r.data \notin {<<>>, CLOSE}
        close == r.exc = "none" /\ r.data = CLOSE
        reads == hist'[c].reads = hist[c].reads + 1
        broken == hist'[c].sendErr = "ConnectionError" /\ ~kept
    IN
    /\ (prog = "server04" /\ reads /\ stopCause' # "interrupt") =>
          /\ chunk =>
                /\ hist'[c].sends = hist[c].sends + 1
                /\ hist'[c].lastSend = Upper(r.data)
                /\ IF broken
                   THEN /\ conn'[c].state = "closed"
                        /\ RegOf(sel', c) = {}
                        /\ hist'[c].disconnects = 1
                   ELSE /\ conn'[c].state = "accepted"
                        /\ RegOf(sel', c) = RegOf(sel, c)
                        /\ RegOf(sel', c) # {}
                        /\ hist'[c].disconnects = 0
          /\ close =>
                /\ hist'[c].sends = hist[c].sends
                /\ conn'[c].written = conn[c].written
                /\ conn'[c].state = "closed"
                /\ RegOf(sel', c) = {}
                /\ hist'[c].disconnects = 1
    /\ prog = "server03" =>
          /\ (reads /\ chunk) =>
                \/ /\ hist'[c].sends = hist[c].sends + 1
                   /\ hist'[c].lastSend = Upper(r.data)
                   /\ SendallStep(conn[c], conn'[c], Upper(r.data), hist'[c].failed, kept)
                \/ /\ hist'[c].sends = hist[c].sends
                   /\ conn'[c].written = conn[c].written /\ conn'[c].out = <<>>
                   /\ conn'[c].state = "accepted"
                   /\ threads'[c] = "running"
          /\ (reads /\ close) =>
                /\ hist'[c].sends = hist[c].sends
                /\ conn'[c].written = conn[c].written /\ conn'[c].out = <<>>
                /\ conn'[c].state = "closed"
          /\ (hist'[c].sends # hist[c].sends /\ ~reads) =>
                /\ hist[c].reads = hist[c].sends + 1
                /\ hist'[c].sends = hist[c].sends + 1
                /\ hist'[c].reads = hist[c].reads
                /\ hist'[c].lastSend = Upper(PendingData(conn[c]))
                /\ SendallStep(conn[c], conn'[c], Upper(PendingData(conn[c])),
                               hist'[c].failed, kept)
          /\ (InSendall(c) /\ conn'[c] # conn[c] /\ conn'[c].sent = conn[c].sent
                /\ (conn'[c].peer = conn[c].peer \/ conn'[c].state = "closed")) =>
                /\ hist'[c].sends = hist[c].sends
                /\ SendallStep([conn[c] EXCEPT !.out = <<>>], conn'[c], conn[c].out,
                               hist'[c].failed, kept)
          /\ (hist[c].reads > hist[c].sends \/ InSendall(c)) =>
                hist'[c].reads = hist[c].reads
          /\ threads'[c] = "running" => hist'[c].reads - hist'[c].sends \in {0, 1}
          /\ conn'[c].state = "accepted" =>
                Prefix(conn'[c].written \o conn'[c].out, Upper(conn'[c].sent))

\* C17, the rule without exception: when handle (server04) or handle_connection (server03)
\* receives a non-empty chunk that is not exactly b"close", it makes exactly
\* one send call, of the upper-cased chunk, on that connection, and the
\* connection stays open (in server04: registered); when the chunk is
\* exactly b"close" nothing is sent and the connection is closed (in
\* server04 through the disconnect path, and it leaves the table).
C17_ChunkRule ==
    [][\A c \in Clients : ChunkRule(c, TRUE)]_vars

\* C17, the rule with its exception: as C17_ChunkRule, the connection staying
\* open and registered unless the send raises ConnectionError (the peer has reset the
\* connection): then server04 takes the disconnect path and the descriptor
\* leaves the table, and handle_connection leaves its loop and the socket
\* is closed.  A send of handle_connection may come in a later step than
\* its recv and take several steps: it is the next thing the process does,
\* and nothing is written that is not the answer to the bytes received.
\* (server04: of callbacks that a KeyboardInterrupt does not cut short.)
C17_ChunkRuleUnlessSendFails ==
    [][\A c \in Clients : ChunkRule(c, FALSE)]_vars

\* handle_connection answered b"Hi" with b"HI", received b"Hi" again and
\* its sendall failed after one byte, the peer having reset the connection:
\* it left the loop and the socket is closed.
C17_Witness ==
    /\ prog = "server03"
    /\ \E c \in Clients :
          /\ conn[c].sent = <<72, 105, 72, 105>>
          /\ hist[c].reads = 2
          /\ hist[c].sends = 2
          /\ hist[c].lastSend = <<72, 73>>
          /\ conn[c].written = <<72, 73, 72>>
          /\ conn[c].peer = "rst"
          /\ hist[c].failed
          /\ conn[c].state = "closed"
          /\ threads[c] = "done"

\* C18: in server02 the main thread can accept a pending connection whatever
\* the Handler threads are doing; every accepted client socket gets its own
\* Handler thread (the main thread starts it before it accepts again), is
\* read and written only by it, is open as long as that thread runs, and is
\* closed once, by that thread, when it ends.
C18_ThreadPerClient ==
    prog = "server02" =>
        /\ (loop = "RUNNING" /\ serv_sock.state = "listening" /\ backlog # <<>>) =>
              ENABLED Accept02
        /\ Cardinality({c \in Clients : conn[c].state = "accepted" /\ threads[c] = "none"}) <= 1
        /\ \A c \in Clients :
              /\ threads[c] = "running" => conn[c].state = "accepted"
              /\ conn[c].state = "accepted" =>
                    \/ threads[c] = "running"
                    \/ threads[c] = "none" /\ loop = "RUNNING" /\ ENABLED Accept02
              /\ (conn[c].state = "closed") = (threads[c] = "done")
              /\ hist[c].closes = (IF threads[c] = "done" THEN 1 ELSE 0)
              /\ hist[c].closes = 1 => hist[c].closedBy = "Handler.run"
              /\ (hist[c].reads > 0 \/ hist[c].sends > 0) => threads[c] # "none"

\* C19: whenever run_server is about to call sel.select(), the registered
\* file objects are exactly the listening socket and the client sockets that
\* were accepted and not closed, each under its own descriptor number.
C19_RegisteredSet ==
    (prog = "server04" /\ loop = "RUNNING" /\ events = {}) =>
        /\ {sel[f].fileobj : f \in DOMAIN sel} = {LISTENER} \cup OpenClients(conn)
        /\ \A f \in DOMAIN sel :
              f = (IF sel[f].fileobj = LISTENER THEN serv_sock.fd
                   ELSE conn[sel[f].fileobj].fd)

\* The loop is about to select with one client closed and another, which it
\* has read from, open.
C19_Witness ==
    /\ prog = "server04"
    /\ loop = "RUNNING"
    /\ events = {}
    /\ \E c, d \in Clients :
          /\ conn[c].state = "closed"
          /\ conn[d].state = "accepted" /\ hist[d].reads > 0

\* The connections a callback was working on in this step: it accepted the
\* connection or it was called to read from it
InCallback(c) == hist'[c] # hist[c] \/ conn'[c] # conn[c]

\* C20: when the loop of run_server terminates, for whatever reason, the
\* listening socket is closed and no client socket is: every client socket
\* that is registered at that moment is open and stays as it is, and the stop
\* path calls no on_disconnect.  Whatever changes for a connection in the
\* step that ends the loop is what the one callback that was running had
\* done to its own connection before the loop ended.
C20_StopLeavesClients ==
    [][(prog = "server04" /\ loop = "RUNNING" /\ loop' = "STOPPED") =>
          /\ serv_sock'.state = "closed"
          /\ Cardinality({c \in Clients : InCallback(c)}) <= 1
          /\ \A c \in Clients :
                /\ hist'[c].closes = hist[c].closes
                /\ conn'[c].state # "closed" \/ conn[c].state = "closed"
                /\ RegOf(sel', c) # {} => conn'[c].state = "accepted"
                /\ ~InCallback(c) => RegOf(sel', c) = RegOf(sel, c)
                /\ hist'[c].disconnects # hist[c].disconnects =>
                      /\ hist'[c].disconnects = hist[c].disconnects + 1
                      /\ hist'[c].steps \in
                            {hist[c].steps \o <<"on_read", "on_disconnect">>,
                             hist[c].steps \o <<"on_read", "on_disconnect", "unregister">>}]_vars

\* The loop was interrupted while two clients were connected, one of them
\* with bytes not yet read: both are still registered and open.
C20_Witness ==
    /\ prog = "server04"
    /\ loop = "STOPPED"
    /\ stopCause = "interrupt"
    /\ serv_sock.state = "closed"
    /\ \A c \in Clients :
          Registered(c) /\ conn[c].state = "accepted" /\ hist[c].disconnects = 0
    /\ \E c \in Clients : Unread(conn[c]) # <<>>

====
